---- MODULE Spec2Model ----
(***************************************************************************)
(* Model of "Web Scraping SEC - Daily Index.ipynb": the URL builder        *)
(* make_url, the master.idx parsing cell, the document-dictionary cell and *)
(* the 10-K filter / URL derivation cell.                                  *)
(*                                                                         *)
(* A Python str is a sequence of one-character strings.  The notebook's    *)
(* names live in the kernel namespace and survive a cell: `bound` is the   *)
(* set of names that are bound, and reading a name outside it raises       *)
(* NameError.                                                              *)
(***************************************************************************)
EXTENDS Integers, Sequences, FiniteSets, TLC

VARIABLES
    pc,               \* position in the cell being run
    bound,            \* names bound in the kernel namespace
    error,            \* exception that ended the last cell, or "none"
    text,             \* byte_data.decode("utf-8")
    data,             \* text split on double spaces
    start_ind,        \* index of the header's last chunk
    data_format,      \* data without the header chunks
    master_data,      \* the records
    index,            \* position of the chunk loop in data_format (0-based)
    clean_item_data,  \* tokens of the current chunk
    tindex,           \* position of the token loop (0-based)
    dindex,           \* position of the filter loop in master_data[0:100] (0-based)
    docu_url,         \* file_url of the last 10-K document seen by the filter
    comp_name,        \* company_name of that document
    printed,          \* the (company_name, file_url) pairs the filter printed
    file_url_archive, \* filing detail page
    archive_url,      \* archive folder
    company_url,      \* docu_url.rpartition('/')
    base_url,         \* make_url argument
    comp,             \* make_url argument
    url,              \* make_url local
    r                 \* position of make_url's loop in comp (0-based)

parseVars == <<text, data, start_ind, data_format, index, clean_item_data, tindex>>
docVars   == <<dindex, docu_url, comp_name, printed, file_url_archive, archive_url, company_url>>
urlVars   == <<base_url, comp, url, r>>
vars      == <<pc, bound, error, master_data, parseVars, docVars, urlVars>>

---------------------------------------------------------------------------
(* Python str and list primitives                                          *)

Min(a, b) == IF a < b THEN a ELSE b
Max(a, b) == IF a > b THEN a ELSE b

\* s[i:i+len(pat)] == pat, i 1-based
MatchAt(s, pat, i) ==
    /\ i >= 1
    /\ i + Len(pat) - 1 <= Len(s)
    /\ \A k \in 1..Len(pat) : s[i + k - 1] = pat[k]

\* str.find: 1-based position of the first occurrence at or after from, 0 if none
RECURSIVE Find(_, _, _)
Find(s, pat, from) ==
    IF from + Len(pat) - 1 > Len(s) THEN 0
    ELSE IF MatchAt(s, pat, from) THEN from
    ELSE Find(s, pat, from + 1)

\* str.rfind: 1-based position of the last occurrence at or before from, 0 if none
RECURSIVE RFind(_, _, _)
RFind(s, pat, from) ==
    IF from < 1 THEN 0
    ELSE IF MatchAt(s, pat, from) THEN from
    ELSE RFind(s, pat, from - 1)

\* pat in s
Contains(s, pat) == Find(s, pat, 1) # 0

\* s.split(sep), sep non-empty: non-overlapping occurrences, left to right
RECURSIVE Split(_, _)
Split(s, sep) ==
    LET j == Find(s, sep, 1) IN
    IF j = 0 THEN <<s>>
    ELSE <<SubSeq(s, 1, j - 1)>> \o Split(SubSeq(s, j + Len(sep), Len(s)), sep)

\* sep.join(parts), parts non-empty
RECURSIVE Join(_, _)
Join(parts, sep) ==
    IF Len(parts) = 1 THEN parts[1]
    ELSE parts[1] \o sep \o Join(Tail(parts), sep)

\* s.replace(old, new)
Replace(s, old, new) == Join(Split(s, old), new)

\* list[a:b] with Python's treatment of negative and out-of-range bounds
PySlice(list, a, b) ==
    LET n  == Len(list)
        lo == IF a < 0 THEN Max(a + n, 0) ELSE Min(a, n)
        hi == IF b < 0 THEN Max(b + n, 0) ELSE Min(b, n)
    IN  SubSeq(list, lo + 1, hi)

\* s.rpartition(sep): (head, sep, tail) around the last occurrence of sep,
\* ('', '', s) when there is none
RPartition(s, sep) ==
    LET j == RFind(s, sep, Len(s) - Len(sep) + 1) IN
    IF j = 0 THEN <<<<>>, <<>>, s>>
    ELSE <<SubSeq(s, 1, j - 1), sep, SubSeq(s, j + Len(sep), Len(s))>>

StartsWith(s, pre) == MatchAt(s, pre, 1)
EndsWith(s, suf)   == MatchAt(s, suf, Len(s) - Len(suf) + 1)

---------------------------------------------------------------------------
(* String literals of the notebook                                         *)

Sentinel ==
    <<"f","t","p",":","/","/","f","t","p",".","s","e","c",".","g","o","v",
      "/","e","d","g","a","r","/">>
ArchiveBase ==
    <<"h","t","t","p","s",":","/","/","w","w","w",".","s","e","c",".","g",
      "o","v","/","A","r","c","h","i","v","e","s","/">>
DotTxt      == <<".","t","x","t">>
DoubleSpace == <<" "," ">>
Newline     == <<"\n">>
Pipe        == <<"|">>
Slash       == <<"/">>
Dash        == <<"-">>
IndexHtm    == <<"-","i","n","d","e","x",".","h","t","m">>
TenK        == <<"1","0","-","K">>

---------------------------------------------------------------------------
(* Inputs of the parsing cell: raw index texts                             *)

MaxBody == 3

HeaderText == <<"H",":">>
\* 1|A|4|d|e/1/a.txt
Row1 == <<"1","|","A","|","4","|","d","|","e","/","1","/","a",".","t","x","t","\n">>
\* 2|B|8|d|e/2/b.txt
Row2 == <<"2","|","B","|","8","|","d","|","e","/","2","/","b",".","t","x","t","\n">>
\* a line that holds nothing but a file name
Stray == <<"x",".","t","x","t","\n">>
\* eight tokens that precede the first row of a chunk
Residue == <<"C","|","N","|","F","|","D","|","P","|","-","|","-","|","-","\n">>

\* no sentinel at all
NoSentinelHead == HeaderText \o Newline
\* the header's last line holds the sentinel; the rows follow it directly
SentinelHead == HeaderText \o DoubleSpace \o Sentinel \o Newline
\* a double space ends the sentinel's chunk and eight tokens precede the rows
ResidueHead == SentinelHead \o DoubleSpace \o Residue
\* the sentinel occurs a second time, after a first row
TwoSentinelHead ==
    ResidueHead \o Row1 \o DoubleSpace \o Sentinel \o Newline \o DoubleSpace \o Residue

Heads  == {NoSentinelHead, SentinelHead, ResidueHead, TwoSentinelHead}
Pieces == {Row1, Row2, Stray, DoubleSpace}

RECURSIVE Concat(_)
Concat(parts) == IF parts = <<>> THEN <<>> ELSE parts[1] \o Concat(Tail(parts))

Bodies == UNION {[1..n -> Pieces] : n \in 0..MaxBody}
Texts  == {h \o Concat(b) : h \in Heads, b \in Bodies}

---------------------------------------------------------------------------
(* The master.idx parsing cell                                             *)

HeaderTokens == 8

\* for index, item in enumerate(data): if sentinel in item: start_ind = index
RECURSIVE ScanHeader(_, _, _)
ScanHeader(chunks, i, cur) ==
    IF i > Len(chunks) THEN cur
    ELSE ScanHeader(chunks, i + 1,
                    IF Contains(chunks[i], Sentinel) THEN i - 1 ELSE cur)

HasSentinel(chunks) == \E i \in 1..Len(chunks) : Contains(chunks[i], Sentinel)

\* item.replace('\n','|').split('|'), less the first 8 tokens for chunk 0
Tokens(item, idx) ==
    LET toks == Split(Replace(item, Newline, Pipe), Pipe) IN
    IF idx = 0 THEN PySlice(toks, HeaderTokens, Len(toks)) ELSE toks

\* clean_item_data[(index - 4): index + 1]
MiniList(toks, i) == PySlice(toks, i - 4, i + 1)

\* mutant: the item is stored with mini_list[-1], which a short list accepts
SetLastItemRaises(mini) == Len(mini) = 0

\* mini_list[4] = ... raises IndexError on a list of fewer than 5 items
SetItemRaises(mini) == Len(mini) <= 4

\* mutant: the prefix goes to mini_list[3]
StoreRefOffByOne(mini) == [mini EXCEPT ![4] = ArchiveBase \o mini[4]]

\* mini_list[4] = "https://www.sec.gov/Archives/" + mini_list[4]
StoreRef(mini) == [mini EXCEPT ![5] = ArchiveBase \o mini[5]]

\* mutant: master_data.insert(0, mini_list)
EmitFirst(records, mini) == <<mini>> \o records

\* master_data.append(mini_list)
Emit(records, mini) == Append(records, mini)

\* byte_data.decode("utf-8").split('  '), tabulated over the inputs
SplitText == [t \in Texts |-> Split(t, DoubleSpace)] @@ <<>>

Init ==
    /\ pc = "idle"
    /\ bound = {}
    /\ error = "none"
    /\ text = <<>>
    /\ data = <<>>
    /\ start_ind = 0
    /\ data_format = <<>>
    /\ master_data = <<>>
    /\ index = 0
    /\ clean_item_data = <<>>
    /\ tindex = 0
    /\ dindex = 0
    /\ docu_url = <<>>
    /\ comp_name = <<>>
    /\ printed = <<>>
    /\ file_url_archive = <<>>
    /\ archive_url = <<>>
    /\ company_url = <<>>
    /\ base_url = <<>>
    /\ comp = <<>>
    /\ url = <<>>
    /\ r = 0

\* The cell is run on the decoded bytes t, up to the chunk loop: lines 408-422.
\* start_ind is bound by the header loop only when a chunk holds the sentinel;
\* line 420 reads it, and raises NameError when it is not bound.
RunParseCell(t) ==
    LET chunks == SplitText[t]
        found  == HasSentinel(chunks)
        start  == ScanHeader(chunks, 1, start_ind)
    IN
    /\ pc = "idle"
    /\ text' = t
    /\ data' = chunks
    /\ start_ind' = start
    /\ IF ~found /\ "start_ind" \notin bound
       THEN /\ pc' = "error"
            /\ error' = "NameError"
            /\ UNCHANGED <<bound, data_format, master_data>>
       ELSE /\ pc' = "chunk"
            /\ data_format' = PySlice(chunks, start + 1, Len(chunks))
            /\ master_data' = <<>>
            /\ bound' = bound \cup {"start_ind", "master_data"}
            /\ UNCHANGED error
    /\ UNCHANGED <<index, clean_item_data, tindex, docVars, urlVars>>

\* lines 425-432: the next chunk is tokenized, or the loop and the cell end
NextChunk ==
    /\ pc = "chunk"
    /\ IF index = Len(data_format)
       THEN /\ pc' = "done"
            /\ UNCHANGED <<clean_item_data, tindex>>
       ELSE /\ pc' = "token"
            /\ clean_item_data' = Tokens(data_format[index + 1], index)
            /\ tindex' = 0
    /\ UNCHANGED <<bound, error, text, data, start_ind, data_format,
                   master_data, index, docVars, urlVars>>

\* lines 434-444: one token of the chunk
NextToken ==
    /\ pc = "token"
    /\ IF tindex = Len(clean_item_data)
       THEN /\ pc' = "chunk"
            /\ index' = index + 1
            /\ UNCHANGED <<error, master_data, tindex>>
       ELSE LET row  == clean_item_data[tindex + 1]
                mini == MiniList(clean_item_data, tindex)
            IN  IF Contains(row, DotTxt) /\ Len(mini) # 0
                THEN IF SetItemRaises(mini)
                     THEN /\ pc' = "error"
                          /\ error' = "IndexError"
                          /\ UNCHANGED <<master_data, index, tindex>>
                     ELSE /\ pc' = "token"
                          /\ master_data' = Emit(master_data, StoreRef(mini))
                          /\ tindex' = tindex + 1
                          /\ UNCHANGED <<error, index>>
                ELSE /\ pc' = "token"
                     /\ tindex' = tindex + 1
                     /\ UNCHANGED <<error, master_data, index>>
    /\ UNCHANGED <<bound, text, data, start_ind, data_format, clean_item_data,
                   docVars, urlVars>>

\* The cell has ended, with its output or with an exception, and the kernel
\* waits for the next run.  Of the cell's names the model keeps start_ind and
\* master_data, which a later run or cell can read before binding them; text,
\* data, data_format, clean_item_data and the loop positions are rebound by
\* lines 409, 412, 420, 425, 429 and 434 before anything reads them.
EndCell ==
    /\ pc \in {"done", "error"}
    /\ pc' = "idle"
    /\ error' = "none"
    /\ text' = <<>>
    /\ data' = <<>>
    /\ data_format' = <<>>
    /\ clean_item_data' = <<>>
    /\ index' = 0
    /\ tindex' = 0
    /\ UNCHANGED <<bound, start_ind, master_data, docVars, urlVars>>

Next ==
    \/ \E t \in Texts : RunParseCell(t)
    \/ NextChunk
    \/ NextToken
    \/ EndCell

Spec == Init /\ [][Next]_vars

---------------------------------------------------------------------------
(* Inputs of the document cells: lists of records as the parse leaves them  *)

MaxTail   == 2
MaxRefLen == 5

FilterLimit == 100

TenKLower == <<"1","0","-","k">>
Form4     == <<"4">>
Date      == <<"d">>

ListRecord(cik, name, form, path) == <<cik, name, form, Date, ArchiveBase \o path>>

\* edgar/data/<cik>/<accession>.txt, shortened to e/<cik>/<accession>.txt
FillerRecord ==
    ListRecord(<<"0">>, <<"F">>, Form4, <<"e","/","0","/","f",".","t","x","t">>)
TenKRecord1 ==
    ListRecord(<<"1">>, <<"A">>, TenK, <<"e","/","1","/","0","-","1",".","t","x","t">>)
TenKRecord2 ==
    ListRecord(<<"2">>, <<"B">>, TenK, <<"e","/","2","/","0","-","2",".","t","x","t">>)
LowerRecord ==
    ListRecord(<<"3">>, <<"C">>, TenKLower, <<"e","/","3","/","0","-","3",".","t","x","t">>)
Form4Record ==
    ListRecord(<<"4">>, <<"D">>, Form4, <<"e","/","4","/","0","-","4",".","t","x","t">>)

TailRecords == {TenKRecord1, TenKRecord2, LowerRecord, Form4Record}
PadLengths  == {0, FilterLimit - 1, FilterLimit}

\* k filler records, then up to MaxTail records of any of the four kinds
LongLists ==
    {[i \in 1..(k + Len(t)) |-> IF i <= k THEN FillerRecord ELSE t[i - k]] :
        k \in PadLengths, t \in UNION {[1..n -> TailRecords] : n \in 0..MaxTail}}

\* one 10-K record whose document path is any string over RefChars, then .txt
RefChars  == {".", "t", "x", "-", "/"}
RefBodies == UNION {[1..n -> RefChars] : n \in 0..MaxRefLen}
OneRecordLists ==
    {<<ListRecord(<<"1">>, <<"A">>, TenK, b \o DotTxt)>> : b \in RefBodies}

---------------------------------------------------------------------------
(* The document-dictionary cell and the 10-K filter cell                   *)

\* lines 469-474
DocumentDict(document) ==
    [cik_number   |-> document[1],
     company_name |-> document[2],
     form_id      |-> document[3],
     date         |-> document[4],
     file_url     |-> document[5]]

\* mutant: the form is compared without regard to case
IsTenKAnyCase(document_dict) == document_dict.form_id \in {TenK, TenKLower}

\* document_dict['form_id'] == '10-K'
IsTenK(document_dict) == document_dict.form_id = TenK

\* master_data[0:100]
FilterRange(records) == PySlice(records, 0, FilterLimit)

\* docu_url.split('.txt')[0] + '-index.htm'
DetailUrl(u) == Split(u, DotTxt)[1] \o IndexHtm

\* docu_url.replace('.txt','').replace('-','')
ArchiveUrl(u) == Replace(Replace(u, DotTxt, <<>>), Dash, <<>>)

\* mutant: docu_url.partition('/')
CompanyUrlFirstSlash(u) ==
    LET j == Find(u, Slash, 1) IN
    IF j = 0 THEN <<u, <<>>, <<>>>>
    ELSE <<SubSeq(u, 1, j - 1), Slash, SubSeq(u, j + 1, Len(u))>>

\* docu_url.rpartition('/')
CompanyUrl(u) == RPartition(u, Slash)

InitDoc ==
    /\ pc = "lists"
    /\ bound = {"start_ind", "master_data"}
    /\ error = "none"
    /\ text = <<>>
    /\ data = <<>>
    /\ start_ind = 0
    /\ data_format = <<>>
    /\ master_data \in LongLists \cup OneRecordLists
    /\ index = 0
    /\ clean_item_data = <<>>
    /\ tindex = 0
    /\ dindex = 0
    /\ docu_url = <<>>
    /\ comp_name = <<>>
    /\ printed = <<>>
    /\ file_url_archive = <<>>
    /\ archive_url = <<>>
    /\ company_url = <<>>
    /\ base_url = <<>>
    /\ comp = <<>>
    /\ url = <<>>
    /\ r = 0

\* lines 466-476: every list of master_data is replaced by its dictionary
DictCell ==
    /\ pc = "lists"
    /\ pc' = "dicts"
    /\ master_data' = [i \in 1..Len(master_data) |-> DocumentDict(master_data[i])]
    /\ UNCHANGED <<bound, error, parseVars, docVars, urlVars>>

\* the filter cell is run: line 524 takes the slice and starts the loop
RunFilterCell ==
    /\ pc = "dicts"
    /\ pc' = "filter"
    /\ dindex' = 0
    /\ printed' = <<>>
    /\ UNCHANGED <<bound, error, master_data, parseVars, docu_url, comp_name,
                   file_url_archive, archive_url, company_url, urlVars>>

\* lines 524-535: one document of master_data[0:100]
FilterStep ==
    /\ pc = "filter"
    /\ dindex < Len(FilterRange(master_data))
    /\ LET document_dict == FilterRange(master_data)[dindex + 1] IN
       IF IsTenK(document_dict)
       THEN /\ comp_name' = document_dict.company_name
            /\ docu_url' = document_dict.file_url
            /\ bound' = bound \cup {"docu_url"}
            /\ printed' = Append(printed, <<document_dict.company_name,
                                            document_dict.file_url>>)
       ELSE UNCHANGED <<comp_name, docu_url, bound, printed>>
    /\ dindex' = dindex + 1
    /\ UNCHANGED <<pc, error, master_data, parseVars, file_url_archive,
                   archive_url, company_url, urlVars>>

\* lines 538-554, after the loop: the three URLs are derived from docu_url,
\* which is bound only if the loop saw a 10-K document
DeriveUrls ==
    /\ pc = "filter"
    /\ dindex = Len(FilterRange(master_data))
    /\ IF "docu_url" \notin bound
       THEN /\ pc' = "error"
            /\ error' = "NameError"
            /\ UNCHANGED <<file_url_archive, archive_url, company_url>>
       ELSE /\ pc' = "derived"
            /\ file_url_archive' = DetailUrl(docu_url)
            /\ archive_url' = ArchiveUrl(docu_url)
            /\ company_url' = CompanyUrl(docu_url)
            /\ UNCHANGED error
    /\ UNCHANGED <<bound, master_data, parseVars, dindex, docu_url, comp_name,
                   printed, urlVars>>

NextDoc ==
    \/ DictCell
    \/ RunFilterCell
    \/ FilterStep
    \/ DeriveUrls

SpecDoc == InitDoc /\ [][NextDoc]_vars

---------------------------------------------------------------------------
(* Several passes in one kernel: the parsing cell is run on another file   *)
(* and the dictionary and filter cells are run again                       *)

InitPasses ==
    /\ InitDoc
    /\ master_data \in LongLists

\* the parsing cell has been run again and has left another list of records
\* in master_data (line 422 rebinds it); the filter cell's names keep the
\* values of the pass before
LoadList(records) ==
    /\ pc \in {"derived", "error"}
    /\ pc' = "lists"
    /\ error' = "none"
    /\ master_data' = records
    /\ UNCHANGED <<bound, parseVars, docVars, urlVars>>

NextPasses ==
    \/ NextDoc
    \/ \E records \in LongLists : LoadList(records)

SpecPasses == InitPasses /\ [][NextPasses]_vars

---------------------------------------------------------------------------
(* make_url                                                                *)

MaxComp == 3

\* r"https://www.sec.gov/Archives/edgar/data" of the example, and a short base
ExampleBase ==
    <<"h","t","t","p","s",":","/","/","w","w","w",".","s","e","c",".","g",
      "o","v","/","A","r","c","h","i","v","e","s","/","e","d","g","a","r",
      "/","d","a","t","a">>
BaseUrls == {ExampleBase, <<"b">>}

\* components: plain, holding a separator, holding blanks, empty
Components == {<<"8","8">>, <<"a","/","b">>, <<" ","x"," ">>, <<>>}
ComponentLists == UNION {[1..n -> Components] : n \in 0..MaxComp}

\* mutant: '{}{}'.format(url, r)
FormatNoSeparator(u, seg) == u \o seg

\* '{}/{}'.format(url, r)
Format(u, seg) == u \o Slash \o seg

InitUrl ==
    /\ pc = "call"
    /\ bound = {}
    /\ error = "none"
    /\ text = <<>>
    /\ data = <<>>
    /\ start_ind = 0
    /\ data_format = <<>>
    /\ master_data = <<>>
    /\ index = 0
    /\ clean_item_data = <<>>
    /\ tindex = 0
    /\ dindex = 0
    /\ docu_url = <<>>
    /\ comp_name = <<>>
    /\ printed = <<>>
    /\ file_url_archive = <<>>
    /\ archive_url = <<>>
    /\ company_url = <<>>
    /\ base_url \in BaseUrls
    /\ comp \in ComponentLists
    /\ url = <<>>
    /\ r = 0

\* line 57: url = base_url
MakeUrlEnter ==
    /\ pc = "call"
    /\ pc' = "loop"
    /\ url' = base_url
    /\ r' = 0
    /\ UNCHANGED <<bound, error, master_data, parseVars, docVars, base_url, comp>>

\* lines 60-61: one component
MakeUrlStep ==
    /\ pc = "loop"
    /\ r < Len(comp)
    /\ url' = Format(url, comp[r + 1])
    /\ r' = r + 1
    /\ UNCHANGED <<pc, bound, error, master_data, parseVars, docVars, base_url, comp>>

\* line 63: return url
MakeUrlReturn ==
    /\ pc = "loop"
    /\ r = Len(comp)
    /\ pc' = "returned"
    /\ UNCHANGED <<bound, error, master_data, parseVars, docVars, urlVars>>

NextUrl ==
    \/ MakeUrlEnter
    \/ MakeUrlStep
    \/ MakeUrlReturn

SpecUrl == InitUrl /\ [][NextUrl]_vars

---------------------------------------------------------------------------
(* Claims about the parsing cell                                           *)

Parsing == pc \in {"chunk", "token", "done"} \/ (pc = "error" /\ error = "IndexError")

\* the text that follows the first occurrence of the sentinel
AfterSentinel(t) ==
    SubSeq(t, Find(t, Sentinel, 1) + Len(Sentinel), Len(t))

\* CIK|company name|form type|date|path.txt
IsRow(line) ==
    LET f == Split(line, Pipe) IN
    /\ Len(f) = 5
    /\ \A k \in 1..5 : f[k] # <<>>
    /\ EndsWith(f[5], DotTxt)
    /\ ~Contains(line, DoubleSpace)

\* a header block that ends with the sentinel's line, then only rows
HeaderThenRows(t) ==
    /\ Contains(t, Sentinel)
    /\ LET ls == Split(AfterSentinel(t), Newline) IN
       /\ Len(ls) >= 2
       /\ ls[1] = <<>>
       /\ ls[Len(ls)] = <<>>
       /\ \A i \in 2..(Len(ls) - 1) : IsRow(ls[i])

FilingOfRow(line) ==
    LET f == Split(line, Pipe) IN <<f[1], f[2], f[3], f[4], ArchiveBase \o f[5]>>

RowFilings(t) ==
    LET ls == Split(AfterSentinel(t), Newline) IN
    [i \in 1..(Len(ls) - 2) |-> FilingOfRow(ls[i + 1])]

\* C1: for a text made of a header block ending with the sentinel followed by
\* N well-formed rows, the parse ends normally and returns exactly the N
\* Filing records of those rows, in order.
C1_EveryRowParsed ==
    (pc \in {"done", "error"} /\ HeaderThenRows(text))
        => (pc = "done" /\ master_data = RowFilings(text))

\* C2: a text without the sentinel makes the parse fail; it never goes on to
\* tokenize chunks or to extract records.
C2_NoSentinelParseFails ==
    (pc # "idle" /\ ~Contains(text, Sentinel)) => pc = "error"

\* C3: at every point of a parse every record appended to master_data has
\* exactly 5 fields; no shorter candidate is ever emitted.
C3_RecordsHaveFiveFields ==
    "master_data" \in bound =>
        \A i \in 1..Len(master_data) : Len(master_data[i]) = 5

\* a '.txt' token with fewer than 4 tokens before it in some chunk
ShortCandidate ==
    \E k \in 1..Len(data_format) :
        LET toks == Tokens(data_format[k], k - 1) IN
        \E i \in 1..Min(4, Len(toks)) : Contains(toks[i], DotTxt)

C3_Witness ==
    /\ pc = "done"
    /\ Len(master_data) >= 1
    /\ ShortCandidate

IsPrefix(s, t) == Len(s) <= Len(t) /\ SubSeq(t, 1, Len(s)) = s

\* the positions of a set of integers in increasing order
Ascending(S) ==
    [k \in 1..Cardinality(S) |->
        CHOOSE x \in S : Cardinality({y \in S : y < x}) = k - 1]

\* the windows of one chunk's tokens, left to right: a window is a '.txt'
\* token with the 4 tokens before it
ChunkWindows(toks) ==
    LET ends == Ascending({i \in 5..Len(toks) : Contains(toks[i], DotTxt)}) IN
    [k \in 1..Len(ends) |->
        <<toks[ends[k] - 4], toks[ends[k] - 3], toks[ends[k] - 2],
          toks[ends[k] - 1], ArchiveBase \o toks[ends[k]]>>]

\* the windows of the data section, chunk by chunk in file order
AllWindows(chunks) ==
    Concat([k \in 1..Len(chunks) |-> ChunkWindows(Tokens(chunks[k], k - 1))])

\* C4: the records are listed in the order of their windows in the data
\* section: during a parse master_data is an initial part of the windows taken
\* left to right, and when the parse ends normally it is all of them.
C4_RecordsInWindowOrder ==
    Parsing =>
        /\ IsPrefix(master_data, AllWindows(data_format))
        /\ pc = "done" => master_data = AllWindows(data_format)

C4_Witness ==
    /\ pc = "done"
    /\ Len(master_data) >= 2
    /\ master_data[1] # master_data[2]
    /\ \E j, k \in 1..Len(data_format) :
          /\ j < k
          /\ ChunkWindows(Tokens(data_format[j], j - 1)) # <<>>
          /\ ChunkWindows(Tokens(data_format[k], k - 1)) # <<>>

\* C5: the step that emits a record appends one record whose 5th field is the
\* archive base followed by the '.txt' token as tokenized and whose other
\* four fields are the four tokens before it; the tokens themselves and the
\* records emitted earlier are left as they were.
C5_PrefixAppliedOnce ==
    [][(pc = "token" /\ master_data' # master_data) =>
          LET n   == Len(master_data)
              rec == master_data'[n + 1]
          IN  /\ Len(master_data') = n + 1
              /\ SubSeq(master_data', 1, n) = master_data
              /\ rec[5] = ArchiveBase \o clean_item_data[tindex + 1]
              /\ \A k \in 1..4 : rec[k] = clean_item_data[tindex - 4 + k]
              /\ clean_item_data' = clean_item_data]_vars

\* a record whose 4th field is itself a '.txt' token, of an earlier window
C5_Witness ==
    /\ pc = "done"
    /\ \E i \in 1..Len(master_data) :
          /\ Contains(master_data[i][4], DotTxt)
          /\ ~StartsWith(master_data[i][4], ArchiveBase)
          /\ StartsWith(master_data[i][5], ArchiveBase)

\* C11: the outcome of a parse depends only on the text given to it: it is
\* the outcome of running the cell on that text in a fresh kernel, where a
\* text without the sentinel ends in NameError and any other text is cut
\* after the header index found in that same text.
C11_OutcomeOfTextAlone ==
    pc # "idle" =>
        IF HasSentinel(data)
        THEN /\ Parsing
             /\ start_ind = ScanHeader(data, 1, 0)
             /\ data_format = PySlice(data, start_ind + 1, Len(data))
        ELSE /\ pc = "error"
             /\ error = "NameError"
             /\ data_format = <<>>

\* the data section holds some text
NonEmptySection == \E k \in 1..Len(data_format) : data_format[k] # <<>>

\* C13: when the sentinel is found and the data section is non-empty, a parse
\* that extracts no record does not end normally with an empty sequence.
C13_NoRecordIsAFailure ==
    (pc = "done" /\ HasSentinel(data) /\ NonEmptySection) => master_data # <<>>

\* C14: a parse that fails leaves no partial result: no records extracted
\* before the failure stay available in master_data.
C14_NoPartialResult ==
    pc = "error" => ("master_data" \notin bound \/ master_data = <<>>)

\* the first chunk that holds the sentinel (0-based)
FirstSentinelChunk ==
    (CHOOSE i \in 1..Len(data) :
        /\ Contains(data[i], Sentinel)
        /\ \A j \in 1..(i - 1) : ~Contains(data[j], Sentinel)) - 1

\* C15: the header ends at the first chunk that holds the sentinel: exactly
\* the chunks at or before it are discarded, also when a later chunk holds
\* the sentinel again.
C15_HeaderEndsAtFirstSentinel ==
    (Parsing /\ HasSentinel(data)) =>
        /\ start_ind = FirstSentinelChunk
        /\ data_format = SubSeq(data, FirstSentinelChunk + 2, Len(data))

\* C16: a '.txt' token with fewer than 4 tokens before it in its chunk is
\* skipped without an error, whatever the chunk's length: no parse stops with
\* an exception at such a token.
C16_ShortCandidateSkipped ==
    (pc = "error" /\ error = "IndexError") =>
        ~(tindex < 4 /\ Contains(clean_item_data[tindex + 1], DotTxt))

---------------------------------------------------------------------------
(* Claims about the filter cell and the derived URLs                       *)

\* C6: for a docu_url that ends in '.txt', the detail URL is docu_url with
\* only that trailing '.txt' replaced by '-index.htm'.
C6_DetailReplacesTrailingTxt ==
    (pc = "derived" /\ EndsWith(docu_url, DotTxt)) =>
        file_url_archive =
            SubSeq(docu_url, 1, Len(docu_url) - Len(DotTxt)) \o IndexHtm

\* C7: for an absolute docu_url that ends in '.txt', the archive folder URL
\* holds no '-' and does not end in '.txt'.
C7_ArchiveHasNoDashNoTxt ==
    (pc = "derived" /\ StartsWith(docu_url, ArchiveBase) /\ EndsWith(docu_url, DotTxt)) =>
        /\ ~Contains(archive_url, Dash)
        /\ ~EndsWith(archive_url, DotTxt)

\* the document's URL has the shape .../<cik_number>/<file name>
HasCikFolder(d) ==
    LET u   == d.file_url
        seg == Slash \o d.cik_number \o Slash
    IN  \E k \in 1..Len(u) :
           /\ MatchAt(u, seg, k)
           /\ ~Contains(SubSeq(u, k + Len(seg), Len(u)), Slash)

TenKPairs(records) ==
    LET hits == SelectSeq(records, LAMBDA d : d.form_id = TenK) IN
    [i \in 1..Len(hits) |-> <<hits[i].company_name, hits[i].file_url>>]

\* C9 as stated: the filter selects exactly the records of the whole sequence
\* whose form is '10-K', in their order, whatever their position.
C9_FilterSelectsEveryTenK ==
    pc \in {"derived", "error"} => printed = TenKPairs(master_data)

\* C9 as amended: the filter selects exactly the records among the first 100
\* of the sequence whose form equals '10-K' (case-sensitive), in their order;
\* at every point of the loop it has selected those among the records seen.
C9_FilterSelectsTenKOfFirst100 ==
    /\ pc = "filter" =>
          printed = TenKPairs(SubSeq(master_data, 1, dindex))
    /\ pc \in {"derived", "error"} =>
          printed = TenKPairs(SubSeq(master_data, 1, Min(Len(master_data), FilterLimit)))

C9_Witness ==
    /\ pc = "derived"
    /\ Len(master_data) > FilterLimit
    /\ printed # <<>>
    /\ \E i \in (FilterLimit + 1)..Len(master_data) : master_data[i].form_id = TenK

\* C12: the three derived URLs are computed from the document reference of
\* a record of the pass that derives them: a 10-K record among the records
\* the filter loop of this pass went through.
C12_UrlsFromRecordOfThePass ==
    pc = "derived" =>
        \E i \in 1..Len(FilterRange(master_data)) :
            /\ master_data[i].form_id = TenK
            /\ master_data[i].file_url = docu_url

---------------------------------------------------------------------------
(* Claims about make_url                                                   *)

\* where the i-th component's separator stands in the result
SepAt(i) ==
    LET before[k \in 0..Len(comp)] ==
            IF k = 0 THEN Len(base_url) ELSE before[k - 1] + 1 + Len(comp[k])
    IN  before[i - 1] + 1

\* C10: make_url returns base_url followed, for each component in order, by
\* one '/' and the component unchanged (base_url itself for no components),
\* and it raises nothing.
C10_MakeUrlJoins ==
    /\ error = "none"
    /\ pc = "returned" =>
          /\ IsPrefix(base_url, url)
          /\ \A i \in 1..Len(comp) :
                /\ url[SepAt(i)] = "/"
                /\ SubSeq(url, SepAt(i) + 1, SepAt(i) + Len(comp[i])) = comp[i]
          /\ Len(url) = SepAt(Len(comp) + 1) - 1
          /\ comp = <<>> => url = base_url

C10_Witness ==
    /\ pc = "returned"
    /\ Len(comp) = 3
    /\ comp[1] = <<>>
    /\ Contains(comp[2], Slash)
    /\ comp[3] # <<>>

====
